---- MODULE Spec2Model ----
(***************************************************************************)
(* Model of the Product Stock API (src/main.py): a catalog document kept   *)
(* in one JSON file (STOCK_FILE) with timestamped backups (BACKUP_DIR),    *)
(* read and written by stateless request handlers.                         *)
(*                                                                         *)
(* A Python dict (insertion ordered) is a sequence of [key, value]         *)
(* entries with distinct keys; a list is a sequence.  A file is a record   *)
(* [state, members]: state "absent" (no file), "json" (a JSON object text  *)
(* whose members may repeat a key, as a hand-edited file can) or "partial" *)
(* (an empty or cut-off text that json.load rejects).                      *)
(***************************************************************************)
EXTENDS Integers, Sequences, FiniteSets, TLC

\* ------------------------------------------------------------------ bounds
\* Seconds the wall clock can show: 0..MaxClock.
MaxClock == 1
\* Consume requests accepted when the filesystem does not fail.
MaxConsumes == 5
\* Consume requests accepted when the filesystem can fail.
MaxFaultConsumes == 2
\* Consume requests accepted when two workers serve them.
MaxRaceConsumes == 2

\* ------------------------------------------------------- program constants
\* main.py:290  if stock_count <= 3:  # Low stock threshold
LowStockThreshold == 3

Workers == {"w1", "w2"}
\* The worker of uvicorn.run(app, ...) (main.py:311-313): one process, one
\* event loop; the handlers are coroutines without an await, so each request
\* runs to completion before the next one starts.
MainWorker == "w1"

LicenseA == "email@example.com:password123"
LicenseB == "email2@example.com:password456"

Product(id, name, image, imagehover, description, price, delivery, stock) ==
    [id |-> id, name |-> name, image |-> image, imagehover |-> imagehover,
     description |-> description, price |-> price,
     delivery_method |-> delivery, stock |-> stock]

StockItem(l) == [license |-> l]

Entry(k, v) == [key |-> k, value |-> v]

\* main.py:52-85
default_data ==
    << Entry("BloodStrike",
         << Product(1, "Blood Strike Account",
                    "https://pic.bittopup.com/apiUpload/2ccf31c25175abf452e9766912a42c73.jpg",
                    "https://imgop.itemku.com/?url=https%3A%2F%2Fd1x91p7vw3vuq8.cloudfront.net%2Fitemku-upload%2F2025715%2Fbu7sesjsnbxx2ftm9kc8q_thumbnail.jpg&w=1033&q=10",
                    "Best Account BloodStrike", 10, "instant",
                    << StockItem(LicenseA), StockItem(LicenseB) >>) >>),
       Entry("Window Protection 11",
         << Product(2, "Window Protection",
                    "https://pic.bittopup.com/apiUpload/2ccf31c25175abf452e9766912a42c73.jpg",
                    "https://encrypted-tbn0.gstatic.com/images?q=tbn:ANd9GcQ4NOVVkcMqtvEutXTu_StAuIwGGvO9DevFkg&s",
                    "Best Window Protection", 30, "Waiting",
                    << StockItem(LicenseA), StockItem(LicenseB),
                       StockItem(LicenseB), StockItem(LicenseB) >>) >>) >>

\* --------------------------------------------------------------- the files
NoFile == [state |-> "absent", members |-> << >>]
PartialFile == [state |-> "partial", members |-> << >>]
JsonFile(members) == [state |-> "json", members |-> members]

\* STOCK_FILE.exists()  (main.py:47, main.py:95)
Exists(file) == file.state # "absent"

\* dict.__setitem__: a known key keeps its place and takes the new value.
DictSet(d, k, v) ==
    IF \E i \in 1..Len(d) : d[i].key = k
    THEN [i \in 1..Len(d) |-> IF d[i].key = k THEN Entry(k, v) ELSE d[i]]
    ELSE Append(d, Entry(k, v))

RECURSIVE DictOf(_, _)
DictOf(members, d) ==
    IF members = << >> THEN d
    ELSE DictOf(Tail(members), DictSet(d, Head(members).key, Head(members).value))

\* json.load (main.py:49): the members in order, a repeated key keeping its
\* last value.  Only called on a file of state "json".
json_load(file) == DictOf(file.members, << >>)

\* json.dump (main.py:103): one member per key, in the dict's order.
json_dump(data) == JsonFile(data)

\* Whether json.load raises on the file's text.
Malformed(file) == file.state = "partial"

\* -------------------------------------- documents found on disk at start-up
\* A document in which two products share id 1.
LegacyDoc ==
    JsonFile(<< Entry("Keys",
                  << Product(1, "Key", "k.png", "", "A key", 5, "instant",
                             << StockItem("key-1"), StockItem("key-2") >>) >>),
                Entry("Accounts",
                  << Product(1, "Account", "a.png", "", "An account", 7, "instant",
                             << StockItem("acc-1") >>),
                     Product(2, "Bundle", "b.png", "", "A bundle", 9, "Waiting",
                             << StockItem("bun-1"), StockItem("bun-2"),
                                StockItem("bun-1") >>) >>) >>)

\* A hand-edited document that repeats the key "Keys".
RepeatedKeyDoc ==
    JsonFile(<< Entry("Keys",
                  << Product(1, "Key", "k.png", "", "A key", 5, "instant",
                             << StockItem("key-old") >>) >>),
                Entry("Keys",
                  << Product(1, "Key", "k.png", "", "A key", 5, "instant",
                             << StockItem("key-1") >>),
                     Product(2, "Spare", "s.png", "", "A spare", 6, "instant",
                             << >>) >>) >>)

InitialFiles == {NoFile, PartialFile, json_dump(default_data), LegacyDoc, RepeatedKeyDoc}

\* Request inputs.
ProductIds == {1, 2, 3}
CategoryNames == {"BloodStrike", "Keys", "Nowhere"}

\* ------------------------------------------------------ the handlers' bodies
Response(status, body) == [status |-> status, body |-> body]
NoResponse == Response(0, [none |-> TRUE])
Detail(text) == [detail |-> text]

RECURSIVE SumLen(_)
SumLen(seqs) == IF seqs = << >> THEN 0 ELSE Len(Head(seqs)) + SumLen(Tail(seqs))

RECURSIVE Concat(_)
Concat(seqs) == IF seqs = << >> THEN << >> ELSE Head(seqs) \o Concat(Tail(seqs))

\* for category, products in stock_data.items(): for product in products:
\* the products in the order the nested loops visit them, each with its
\* category and its place.
Scan(stock_data) ==
    Concat([c \in 1..Len(stock_data) |->
              [i \in 1..Len(stock_data[c].value) |->
                 [category |-> stock_data[c].key, c |-> c, i |-> i,
                  product |-> stock_data[c].value[i]]]])

\* Mutant: <= in place of ==.
IdMatches_le(product, product_id) == product.id <= product_id

\* if product["id"] == product_id  (main.py:162, 217, 243)
IdMatches(product, product_id) == product.id = product_id

\* The first product the loops reach whose id matches, as a sequence of at
\* most one visit.
FirstMatch(stock_data, product_id) ==
    LET hits == SelectSeq(Scan(stock_data),
                          LAMBDA v : IdMatches(v.product, product_id))
    IN  IF hits = << >> THEN << >> ELSE << Head(hits) >>

\* main.py:109-125
root == Response(200, [message |-> "Product Stock API", version |-> "1.0.0",
                       status |-> "running"])

\* main.py:132-136 and main.py:137-138
health_check(load_ok, now) ==
    IF load_ok
    THEN Response(200, [status |-> "healthy", timestamp |-> now,
                        service |-> "Product Stock API"])
    ELSE Response(200, [status |-> "unhealthy", error |-> "Error loading stock data"])

\* main.py:145-150
get_all_products(stock_data) ==
    Response(200, [products |->
        Concat([c \in 1..Len(stock_data) |-> stock_data[c].value])])

\* main.py:160-165
get_product(stock_data, product_id) ==
    LET hit == FirstMatch(stock_data, product_id)
    IN  IF hit # << >> THEN Response(200, [product |-> hit[1].product])
        ELSE Response(404, Detail("Product not found"))

\* main.py:176-184
get_categories(stock_data) ==
    Response(200, [categories |->
        [c \in 1..Len(stock_data) |->
           [name |-> stock_data[c].key,
            product_count |-> Len(stock_data[c].value)]]])

\* main.py:194-203
get_products_by_category(stock_data, category_name) ==
    IF ~ \E c \in 1..Len(stock_data) : stock_data[c].key = category_name
    THEN Response(404, Detail("Category not found"))
    ELSE LET c == CHOOSE c \in 1..Len(stock_data) : stock_data[c].key = category_name
         IN  Response(200, [category |-> category_name,
                            products |-> stock_data[c].value])

\* main.py:215-227
get_product_stock(stock_data, product_id) ==
    LET hit == FirstMatch(stock_data, product_id)
    IN  IF hit # << >>
        THEN Response(200, [product_id |-> product_id,
                            product_name |-> hit[1].product.name,
                            category |-> hit[1].category,
                            stock_count |-> Len(hit[1].product.stock),
                            available |-> Len(hit[1].product.stock) > 0,
                            delivery_method |-> hit[1].product.delivery_method])
        ELSE Response(404, Detail("Product not found"))

\* Mutant: < in place of <=.
IsLowStock_lt(stock_count) == stock_count < LowStockThreshold

\* if stock_count <= 3  (main.py:290)
IsLowStock(stock_count) == stock_count <= LowStockThreshold

\* main.py:279-306
get_dashboard_stats(stock_data, now) ==
    LET visits == Scan(stock_data)
        low == SelectSeq(visits, LAMBDA v : IsLowStock(Len(v.product.stock)))
        low_stock_products ==
            [k \in 1..Len(low) |->
               [id |-> low[k].product.id, name |-> low[k].product.name,
                category |-> low[k].category,
                stock_count |-> Len(low[k].product.stock),
                price |-> low[k].product.price]]
    IN  Response(200,
          [total_categories |-> Len(stock_data),
           total_products |-> SumLen([c \in 1..Len(stock_data) |-> stock_data[c].value]),
           total_stock_items |-> SumLen([k \in 1..Len(visits) |-> visits[k].product.stock]),
           low_stock_products |-> low_stock_products,
           low_stock_count |-> Len(low_stock_products),
           updated_at |-> now])

\* Mutants: pop() in place of pop(0).
PopItem_last(stock) == stock[Len(stock)]
PopRest_last(stock) == SubSeq(stock, 1, Len(stock) - 1)

\* list.pop(0) (main.py:247): the item removed, and the list that is left.
PopItem(stock) == Head(stock)
PopRest(stock) == Tail(stock)

\* stock_data after product["stock"].pop(0) on the product visited at (c, i).
WithStock(stock_data, c, i, stock) ==
    [stock_data EXCEPT ![c].value[i].stock = stock]

\* main.py:252-260, built after the pop and the save.
consume_success(stock_data, product_id, hit, consumed_license) ==
    Response(200, [success |-> TRUE, product_id |-> product_id,
                   product_name |-> hit.product.name,
                   category |-> hit.category,
                   consumed_license |-> consumed_license,
                   remaining_stock |-> Len(stock_data[hit.c].value[hit.i].stock),
                   message |-> "Stock item consumed successfully"])

\* ------------------------------------------------------------------- state
VARIABLES
    stock_file,   \* STOCK_FILE: the primary document
    backups,      \* BACKUP_DIR: a set of [name, content], one per file name
    clock,        \* datetime.now(), in whole seconds
    worker,       \* per worker: the request it serves and the handler's locals
    consumed,     \* history: per product id, the responses to its consume requests
    disk0         \* history: the primary document at start-up

vars == << stock_file, backups, clock, worker, consumed, disk0 >>

Snapshot == [primary |-> stock_file, backups |-> backups]
NoSnapshot == [primary |-> NoFile, backups |-> {}]
SaveSnapshot == [primary |-> stock_file, backups |-> backups, clock |-> clock]
NoSaveSnapshot == [primary |-> NoFile, backups |-> {}, clock |-> 0]

\* A worker between requests.  start, loaded, save_start, n_writes and
\* n_backups are history: the files when the request began, the catalog
\* load_stock_data returned, the files when the last save_stock_data began,
\* and the request's writes of the primary document and of backup files.
IdleWorker ==
    [pc |-> "idle", op |-> "none", product_id |-> 0, category_name |-> "",
     stock_data |-> << >>, hit |-> << >>, consumed_license |-> StockItem(""),
     backup_file |-> 0, ret |-> "none", save_result |-> "none",
     response |-> NoResponse,
     start |-> NoSnapshot, loaded |-> << >>, save_start |-> NoSaveSnapshot,
     n_writes |-> 0, n_backups |-> 0]

Init ==
    /\ stock_file \in InitialFiles
    /\ backups = {}
    /\ clock = 0
    /\ worker = [w \in Workers |-> IdleWorker]
    /\ consumed = [p \in ProductIds |-> << >>]
    /\ disk0 = stock_file

Set(w, rec) == worker' = [worker EXCEPT ![w] = rec]

\* The response leaves the handler; a consume response joins the history.
Finish(w, rec, resp) ==
    /\ Set(w, [rec EXCEPT !.pc = "done", !.response = resp])
    /\ consumed' = IF rec.op = "consume"
                   THEN [consumed EXCEPT ![rec.product_id] = Append(@, resp)]
                   ELSE consumed

\* except Exception / except HTTPException of a handler around a failed load
\* or save: 500, but health_check answers 200 "unhealthy" (main.py:137-138).
Raise500(w, rec, text) ==
    Finish(w, rec, IF rec.op = "health_check" THEN health_check(FALSE, clock)
                   ELSE Response(500, Detail(text)))

\* ------------------------------------------------------------- the requests
Ops == {"root", "health_check", "get_all_products", "get_product",
        "get_categories", "get_products_by_category", "get_product_stock",
        "consume", "get_dashboard_stats"}
IdOps == {"get_product", "get_product_stock", "consume"}

\* The consume requests answered so far, and those being served.
TotalConsumes ==
    Cardinality(UNION {{<< id, k >> : k \in 1..Len(consumed[id])} : id \in ProductIds})
    + Cardinality({w \in Workers : /\ worker[w].op = "consume"
                                   /\ worker[w].pc \notin {"idle", "done"}})

\* A request for one of `ops` arrives at an idle worker; at most `limit`
\* consume requests are accepted in all.
Request(w, ops, limit) ==
    /\ worker[w].pc = "idle"
    /\ \E o \in ops, id \in ProductIds, name \in CategoryNames :
         /\ o = "consume" => TotalConsumes < limit
         /\ Set(w, [IdleWorker EXCEPT
                      !.pc = IF o = "root" THEN "handle" ELSE "load",
                      !.op = o,
                      !.product_id = IF o \in IdOps THEN id ELSE 0,
                      !.category_name =
                          IF o = "get_products_by_category" THEN name ELSE "",
                      !.start = Snapshot])
    /\ UNCHANGED << stock_file, backups, clock, consumed, disk0 >>

\* The response is sent and the handler's locals are gone.
Reply(w) ==
    /\ worker[w].pc = "done"
    /\ Set(w, IdleWorker)
    /\ UNCHANGED << stock_file, backups, clock, consumed, disk0 >>

\* ------------------------------------------------ load_stock_data, main.py:44
\* Mutant: the loaded catalog is written back at once.
LoadExisting_resave(w) ==
    /\ worker[w].pc = "load"
    /\ Exists(stock_file) /\ ~ Malformed(stock_file)
    /\ stock_file' = json_dump(json_load(stock_file))
    /\ Set(w, [worker[w] EXCEPT !.pc = "handle",
                                !.stock_data = json_load(stock_file),
                                !.loaded = json_load(stock_file)])
    /\ UNCHANGED << backups, clock, consumed, disk0 >>

\* The file exists and parses: return json.load(f)  (main.py:47-49).
LoadExisting(w) ==
    /\ worker[w].pc = "load"
    /\ Exists(stock_file) /\ ~ Malformed(stock_file)
    /\ Set(w, [worker[w] EXCEPT !.pc = "handle",
                                !.stock_data = json_load(stock_file),
                                !.loaded = json_load(stock_file)])
    /\ UNCHANGED << stock_file, backups, clock, consumed, disk0 >>

\* The file exists and json.load raises: 500  (main.py:88-89).
LoadMalformed(w) ==
    /\ worker[w].pc = "load"
    /\ Malformed(stock_file)
    /\ Raise500(w, worker[w], "Error loading stock data")
    /\ UNCHANGED << stock_file, backups, clock, disk0 >>

\* Mutant: the default catalog is returned and never saved.
LoadDefault_nosave(w) ==
    /\ worker[w].pc = "load"
    /\ ~ Exists(stock_file)
    /\ Set(w, [worker[w] EXCEPT !.pc = "handle", !.stock_data = default_data,
                                !.loaded = default_data])
    /\ UNCHANGED << stock_file, backups, clock, consumed, disk0 >>

\* No file: default_data, then save_stock_data(default_data)  (main.py:50-86).
LoadDefault(w) ==
    /\ worker[w].pc = "load"
    /\ ~ Exists(stock_file)
    /\ Set(w, [worker[w] EXCEPT !.pc = "save", !.ret = "load",
                                !.stock_data = default_data])
    /\ UNCHANGED << stock_file, backups, clock, consumed, disk0 >>

\* ------------------------------------------------ save_stock_data, main.py:91
BackupWrite(dir, name, content) ==
    {b \in dir : b.name # name} \cup {[name |-> name, content |-> content]}

\* if STOCK_FILE.exists():  (main.py:95)
SaveExists(w) ==
    /\ worker[w].pc = "save"
    /\ Set(w, [worker[w] EXCEPT
                 !.pc = IF Exists(stock_file) THEN "save_backup" ELSE "save_open",
                 !.save_start = SaveSnapshot, !.save_result = "none"])
    /\ UNCHANGED << stock_file, backups, clock, consumed, disk0 >>

\* Mutant: the backup takes the new data, not the file's text.
SaveBackup_newdata(w) ==
    /\ worker[w].pc = "save_backup"
    /\ backups' = BackupWrite(backups, clock, json_dump(worker[w].stock_data))
    /\ Set(w, [worker[w] EXCEPT !.pc = "save_open", !.backup_file = clock,
                                !.n_backups = @ + 1])
    /\ UNCHANGED << stock_file, clock, consumed, disk0 >>

\* backup.write(original.read()) into stock_backup_<now>.json  (main.py:96-99)
SaveBackup(w) ==
    /\ worker[w].pc = "save_backup"
    /\ backups' = BackupWrite(backups, clock, stock_file)
    /\ Set(w, [worker[w] EXCEPT !.pc = "save_open", !.backup_file = clock,
                                !.n_backups = @ + 1])
    /\ UNCHANGED << stock_file, clock, consumed, disk0 >>

\* open(STOCK_FILE, 'w') creates or truncates the file  (main.py:102)
SaveOpen(w) ==
    /\ worker[w].pc = "save_open"
    /\ stock_file' = PartialFile
    /\ Set(w, [worker[w] EXCEPT !.pc = "save_dump", !.n_writes = @ + 1])
    /\ UNCHANGED << backups, clock, consumed, disk0 >>

\* Mutant: the catalog as loaded, before the pop, is written.
SaveDump_unpopped(w) ==
    /\ worker[w].pc = "save_dump"
    /\ stock_file' = json_dump(IF worker[w].ret = "load" THEN worker[w].stock_data
                               ELSE worker[w].loaded)
    /\ Set(w, [worker[w] EXCEPT
                 !.save_result = "ok",
                 !.pc = IF worker[w].ret = "load" THEN "handle" ELSE "consume_return",
                 !.loaded = IF worker[w].ret = "load" THEN worker[w].stock_data ELSE @])
    /\ UNCHANGED << backups, clock, consumed, disk0 >>

\* json.dump(data, f, ...), close, return True  (main.py:103-105); back in
\* load_stock_data the catalog is returned (main.py:87).
SaveDump(w) ==
    /\ worker[w].pc = "save_dump"
    /\ stock_file' = json_dump(worker[w].stock_data)
    /\ Set(w, [worker[w] EXCEPT
                 !.save_result = "ok",
                 !.pc = IF worker[w].ret = "load" THEN "handle" ELSE "consume_return",
                 !.loaded = IF worker[w].ret = "load" THEN worker[w].stock_data ELSE @])
    /\ UNCHANGED << backups, clock, consumed, disk0 >>

\* ------------------------------------------------------------ the handlers
ReadOnlyResponse(rec, now) ==
    CASE rec.op = "root" -> root
      [] rec.op = "health_check" -> health_check(TRUE, now)
      [] rec.op = "get_all_products" -> get_all_products(rec.stock_data)
      [] rec.op = "get_product" -> get_product(rec.stock_data, rec.product_id)
      [] rec.op = "get_categories" -> get_categories(rec.stock_data)
      [] rec.op = "get_products_by_category" ->
            get_products_by_category(rec.stock_data, rec.category_name)
      [] rec.op = "get_product_stock" ->
            get_product_stock(rec.stock_data, rec.product_id)
      [] rec.op = "get_dashboard_stats" -> get_dashboard_stats(rec.stock_data, now)

\* root, health_check, get_all_products, get_product, get_categories,
\* get_products_by_category, get_product_stock, get_dashboard_stats
ReadOnly(w) ==
    /\ worker[w].pc = "handle"
    /\ worker[w].op # "consume"
    /\ Finish(w, worker[w], ReadOnlyResponse(worker[w], clock))
    /\ UNCHANGED << stock_file, backups, clock, disk0 >>

\* consume_stock_item: no product has the id: 404  (main.py:267-268)
ConsumeNotFound(w) ==
    /\ worker[w].pc = "handle" /\ worker[w].op = "consume"
    /\ FirstMatch(worker[w].stock_data, worker[w].product_id) = << >>
    /\ Finish(w, worker[w], Response(404, Detail("Product not found")))
    /\ UNCHANGED << stock_file, backups, clock, disk0 >>

\* Mutant: the catalog is saved before the stock is looked at.
ConsumeOutOfStock_saves(w) ==
    /\ worker[w].pc = "handle" /\ worker[w].op = "consume"
    /\ LET hit == FirstMatch(worker[w].stock_data, worker[w].product_id)
       IN  /\ hit # << >>
           /\ hit[1].product.stock = << >>
    /\ backups' = BackupWrite(backups, clock, stock_file)
    /\ Finish(w, worker[w], Response(400, Detail("Product is out of stock")))
    /\ UNCHANGED << stock_file, clock, disk0 >>

\* consume_stock_item: the first match has no stock: 400  (main.py:261-265)
ConsumeOutOfStock(w) ==
    /\ worker[w].pc = "handle" /\ worker[w].op = "consume"
    /\ LET hit == FirstMatch(worker[w].stock_data, worker[w].product_id)
       IN  /\ hit # << >>
           /\ hit[1].product.stock = << >>
    /\ Finish(w, worker[w], Response(400, Detail("Product is out of stock")))
    /\ UNCHANGED << stock_file, backups, clock, disk0 >>

\* consume_stock_item: pop(0), then save_stock_data(stock_data)  (main.py:245-250)
ConsumePop(w) ==
    /\ worker[w].pc = "handle" /\ worker[w].op = "consume"
    /\ LET hit == FirstMatch(worker[w].stock_data, worker[w].product_id)
       IN  /\ hit # << >>
           /\ hit[1].product.stock # << >>
           /\ Set(w, [worker[w] EXCEPT
                        !.pc = "save", !.ret = "consume", !.hit = hit,
                        !.consumed_license = PopItem(hit[1].product.stock),
                        !.stock_data = WithStock(@, hit[1].c, hit[1].i,
                                                 PopRest(hit[1].product.stock))])
    /\ UNCHANGED << stock_file, backups, clock, consumed, disk0 >>

\* consume_stock_item: the success response  (main.py:252-260)
ConsumeReturn(w) ==
    /\ worker[w].pc = "consume_return"
    /\ Finish(w, worker[w],
              consume_success(worker[w].stock_data, worker[w].product_id,
                              worker[w].hit[1], worker[w].consumed_license))
    /\ UNCHANGED << stock_file, backups, clock, disk0 >>

\* ------------------------------------------------------- filesystem failures
\* open(STOCK_FILE, 'r') or the read fails in load_stock_data  (main.py:48, 88)
LoadFault(w) ==
    /\ worker[w].pc = "load"
    /\ Exists(stock_file)
    /\ Raise500(w, worker[w], "Error loading stock data")
    /\ UNCHANGED << stock_file, backups, clock, disk0 >>

SaveError(rec) ==
    IF rec.ret = "load" THEN "Error loading stock data"
    ELSE "Error saving stock data"

\* The backup step fails (main.py:98-99, 106-107): before the backup file is
\* opened for writing, or after, leaving it empty or cut off.
BackupFault(w) ==
    /\ worker[w].pc = "save_backup"
    /\ \/ backups' = backups
       \/ backups' = BackupWrite(backups, clock, PartialFile)
    /\ Raise500(w, [worker[w] EXCEPT !.save_result = "failed",
                                     !.backup_file = clock,
                                     !.n_backups = IF backups' = backups THEN @ ELSE @ + 1],
                SaveError(worker[w]))
    /\ UNCHANGED << stock_file, clock, disk0 >>

\* open(STOCK_FILE, 'w') fails  (main.py:102, 106-107)
OpenFault(w) ==
    /\ worker[w].pc = "save_open"
    /\ Raise500(w, [worker[w] EXCEPT !.save_result = "failed"], SaveError(worker[w]))
    /\ UNCHANGED << stock_file, backups, clock, disk0 >>

\* json.dump or the close fails after the file was truncated  (main.py:103, 106-107)
DumpFault(w) ==
    /\ worker[w].pc = "save_dump"
    /\ Raise500(w, [worker[w] EXCEPT !.save_result = "failed"], SaveError(worker[w]))
    /\ UNCHANGED << stock_file, backups, clock, disk0 >>

\* A second passes.
Tick ==
    /\ clock < MaxClock
    /\ clock' = clock + 1
    /\ UNCHANGED << stock_file, backups, worker, consumed, disk0 >>

\* ---------------------------------------------------------- specifications
Serve(w) ==
    \/ LoadExisting(w) \/ LoadMalformed(w) \/ LoadDefault(w)
    \/ SaveExists(w) \/ SaveBackup(w) \/ SaveOpen(w) \/ SaveDump(w)
    \/ ReadOnly(w)
    \/ ConsumeNotFound(w) \/ ConsumeOutOfStock(w) \/ ConsumePop(w)
    \/ ConsumeReturn(w)
    \/ Reply(w)

Fault(w) == LoadFault(w) \/ BackupFault(w) \/ OpenFault(w) \/ DumpFault(w)

\* One worker, a filesystem that does not fail.
Next ==
    \/ Tick
    \/ Request(MainWorker, Ops, MaxConsumes)
    \/ Serve(MainWorker)

Spec == Init /\ [][Next]_vars

\* One worker, a filesystem that can fail at every step.
NextFaults ==
    \/ Tick
    \/ Request(MainWorker, Ops, MaxFaultConsumes)
    \/ Serve(MainWorker)
    \/ Fault(MainWorker)

SpecFaults == Init /\ [][NextFaults]_vars

\* Two workers sharing the files (uvicorn --workers 2, or two instances on
\* one volume), nothing locking them; a filesystem that does not fail; the
\* clients send consume requests only, all within one second.
ServeConsume(w) ==
    \/ LoadExisting(w) \/ LoadMalformed(w) \/ LoadDefault(w)
    \/ SaveExists(w) \/ SaveBackup(w) \/ SaveOpen(w) \/ SaveDump(w)
    \/ ConsumeNotFound(w) \/ ConsumeOutOfStock(w) \/ ConsumePop(w)
    \/ ConsumeReturn(w)
    \/ Reply(w)

NextWorkers ==
    \E w \in Workers : Request(w, {"consume"}, MaxRaceConsumes) \/ ServeConsume(w)

SpecWorkers == Init /\ [][NextWorkers]_vars

\* ------------------------------------------------- vocabulary of the claims
\* The places <<c, i>> of the products of a catalog.
Places(catalog) ==
    UNION {{<< c, i >> : i \in 1..Len(catalog[c].value)} : c \in 1..Len(catalog)}

ProductAt(catalog, pl) == catalog[pl[1]].value[pl[2]]

PlacesOf(catalog, id) == {pl \in Places(catalog) : ProductAt(catalog, pl).id = id}

\* The first place holding the id: earliest category, then earliest product.
FirstPlace(catalog, id) ==
    CHOOSE pl \in PlacesOf(catalog, id) :
        \A q \in PlacesOf(catalog, id) :
            pl[1] < q[1] \/ (pl[1] = q[1] /\ pl[2] <= q[2])

\* The catalog with the first stock item of the first product of that id
\* removed and nothing else changed.
WithoutHead(catalog, id) ==
    [c \in 1..Len(catalog) |->
       [key |-> catalog[c].key,
        value |-> [i \in 1..Len(catalog[c].value) |->
                     IF << c, i >> = FirstPlace(catalog, id)
                     THEN [catalog[c].value[i] EXCEPT !.stock = Tail(@)]
                     ELSE catalog[c].value[i]]]]

\* The catalog the program serves from a start-up document.
CatalogOf(file) ==
    IF file.state = "json" THEN json_load(file)
    ELSE IF file.state = "absent" THEN default_data ELSE << >>

Quiet(w) == worker[w].pc \in {"idle", "done"}
Answered(w, o) == worker[w].pc = "done" /\ worker[w].op = o

\* ------------------------------------------------------------------ claims
\* C1: with one worker and a filesystem that does not fail, the consume
\* requests for a product id that starts with N stock items are answered in
\* turn: the i-th (i <= N) succeeds with the i-th item of the original stock
\* and remaining_stock = N - i; every later one, the (N+1)-th first, fails
\* with 400, and the persisted stock is then empty.
C1_ConsumeFifoThenOutOfStock ==
    \A id \in ProductIds :
        PlacesOf(CatalogOf(disk0), id) # {} =>
            LET stock0 == ProductAt(CatalogOf(disk0),
                                    FirstPlace(CatalogOf(disk0), id)).stock
                N == Len(stock0)
                answers == consumed[id]
            IN  /\ \A k \in 1..Len(answers) :
                      IF k <= N
                      THEN /\ answers[k].status = 200
                           /\ answers[k].body.consumed_license = stock0[k]
                           /\ answers[k].body.remaining_stock = N - k
                      ELSE answers[k].status = 400
                /\ (Len(answers) > N /\ \A w \in Workers : Quiet(w)) =>
                      /\ stock_file.state = "json"
                      /\ ProductAt(json_load(stock_file),
                                   FirstPlace(json_load(stock_file), id)).stock = << >>

\* C1 witness: the fifth consume of product 2 of the seed (N = 4) was
\* answered 400 after four successes.
C1_Witness ==
    /\ disk0 = NoFile
    /\ Len(consumed[2]) = 5
    /\ consumed[2][4].status = 200
    /\ consumed[2][5].status = 400

\* C2: when a consume request has succeeded (one worker, no failure), the
\* catalog a fresh load returns is the catalog that request loaded with the
\* first stock item of the first product of that id removed and nothing
\* else changed.
C2_ConsumeRemovesOnlyHead ==
    \A w \in Workers :
        (Answered(w, "consume") /\ worker[w].response.status = 200) =>
            /\ stock_file.state = "json"
            /\ json_load(stock_file)
                 = WithoutHead(worker[w].loaded, worker[w].product_id)

\* C2 witness: a consume succeeded on a catalog in which two products share
\* the id, and only the first of them lost an item.
C2_Witness ==
    \E w \in Workers :
        /\ Answered(w, "consume") /\ worker[w].response.status = 200
        /\ Cardinality(PlacesOf(worker[w].loaded, worker[w].product_id)) = 2
        /\ Len(ProductAt(json_load(stock_file), << 1, 1 >>).stock) = 1
        /\ ProductAt(json_load(stock_file), << 2, 1 >>)
             = ProductAt(worker[w].loaded, << 2, 1 >>)

\* C3: two consume requests of the same product id that loaded the same
\* catalog and both succeeded (two workers, no lock) were given the same
\* license, the head of that catalog's stock, and the same remaining_stock,
\* and the persisted catalog has lost that one item only.
C3_OverlappingConsumesLoseUpdate ==
    \A w1, w2 \in Workers :
        ( /\ w1 # w2
          /\ Answered(w1, "consume") /\ worker[w1].response.status = 200
          /\ Answered(w2, "consume") /\ worker[w2].response.status = 200
          /\ worker[w1].product_id = worker[w2].product_id
          /\ worker[w1].loaded = worker[w2].loaded ) =>
            LET catalog == worker[w1].loaded
                id == worker[w1].product_id
                stock == ProductAt(catalog, FirstPlace(catalog, id)).stock
            IN  /\ worker[w1].response.body.consumed_license = Head(stock)
                /\ worker[w2].response.body.consumed_license = Head(stock)
                /\ worker[w1].response.body.remaining_stock = Len(stock) - 1
                /\ worker[w2].response.body.remaining_stock = Len(stock) - 1
                /\ stock_file = json_dump(WithoutHead(catalog, id))

\* C3 witness: the lost update.  Both workers answered success for product 1
\* of the seed with the same license, and the persisted stock is one shorter.
C3_Witness ==
    /\ \A w \in Workers :
          /\ Answered(w, "consume") /\ worker[w].response.status = 200
          /\ worker[w].product_id = 1
          /\ worker[w].loaded = default_data
          /\ worker[w].response.body.consumed_license = StockItem(LicenseA)
    /\ stock_file.state = "json"
    /\ Len(ProductAt(json_load(stock_file), << 1, 1 >>).stock) = 1

\* C4: a consume request answered 404 or 400 that began with the primary
\* document present wrote nothing: the primary document and the backup
\* files are as they were when it began.
C4_FailedConsumeWritesNothing ==
    \A w \in Workers :
        ( /\ Answered(w, "consume")
          /\ worker[w].response.status \in {400, 404}
          /\ Exists(worker[w].start.primary) ) =>
            /\ stock_file = worker[w].start.primary
            /\ backups = worker[w].start.backups
            /\ worker[w].n_writes = 0
            /\ worker[w].n_backups = 0

\* C4 witness: a consume was answered 400 on a document that already held
\* backups.
C4_Witness ==
    \E w \in Workers :
        /\ Answered(w, "consume")
        /\ worker[w].response.status = 400
        /\ Exists(worker[w].start.primary)
        /\ worker[w].start.backups # {}

\* C5: a load that finds no primary document returns the seed catalog (two
\* categories: BloodStrike with product 1 and 2 stock items, Window
\* Protection 11 with product 2 and 4 stock items) and persists it without
\* a backup; a load that finds the seed as persisted returns the same
\* catalog and writes nothing.
C5_LoadSeedsOnceThenIdempotent ==
    \A w \in Workers :
        (worker[w].pc = "handle" /\ worker[w].op # "root") =>
            /\ ~ Exists(worker[w].start.primary) =>
                  /\ worker[w].loaded = default_data
                  /\ Len(worker[w].loaded) = 2
                  /\ worker[w].loaded[1].key = "BloodStrike"
                  /\ Len(worker[w].loaded[1].value) = 1
                  /\ worker[w].loaded[1].value[1].id = 1
                  /\ Len(worker[w].loaded[1].value[1].stock) = 2
                  /\ worker[w].loaded[2].key = "Window Protection 11"
                  /\ Len(worker[w].loaded[2].value) = 1
                  /\ worker[w].loaded[2].value[1].id = 2
                  /\ Len(worker[w].loaded[2].value[1].stock) = 4
                  /\ stock_file.state = "json"
                  /\ json_load(stock_file) = worker[w].loaded
                  /\ backups = worker[w].start.backups
            /\ ( /\ disk0 = NoFile
                 /\ Exists(worker[w].start.primary)
                 /\ \A id \in ProductIds : consumed[id] = << >> ) =>
                  /\ worker[w].loaded = default_data
                  /\ stock_file = worker[w].start.primary
                  /\ backups = worker[w].start.backups

\* C5 witness: the second load of a store that began without a document.
C5_Witness ==
    \E w \in Workers :
        /\ worker[w].pc = "handle" /\ worker[w].op = "get_categories"
        /\ disk0 = NoFile
        /\ Exists(worker[w].start.primary)
        /\ \A id \in ProductIds : consumed[id] = << >>

\* A save_stock_data call of worker w has just returned True.
SaveReturned(w) ==
    /\ worker[w].pc \in {"handle", "consume_return"}
    /\ worker[w].save_result = "ok"

\* C6: when a save has returned (one worker), a backup file was written if
\* and only if the primary document existed when the save began; its content
\* is the primary document's content before the overwrite and its name is a
\* second of the save, so a backup of the same second is replaced; without a
\* primary document the save succeeds and the backups are untouched.
C6_BackupIffPrimaryExisted ==
    \A w \in Workers :
        SaveReturned(w) =>
            LET before == worker[w].save_start
                name == worker[w].backup_file
            IN  IF Exists(before.primary)
                THEN /\ before.clock <= name /\ name <= clock
                     /\ backups = {b \in before.backups : b.name # name}
                                  \cup {[name |-> name, content |-> before.primary]}
                     /\ worker[w].n_backups = 1
                ELSE /\ backups = before.backups
                     /\ worker[w].n_backups = 0
                     /\ stock_file = json_dump(worker[w].stock_data)

\* C6 witness: a save returned whose backup replaced an earlier backup of
\* the same second that held other content.
C6_Witness ==
    \E w \in Workers :
        /\ SaveReturned(w)
        /\ Exists(worker[w].save_start.primary)
        /\ \E b \in worker[w].save_start.backups :
              /\ b.name = worker[w].backup_file
              /\ b.content # worker[w].save_start.primary
        /\ Cardinality(backups) = Cardinality(worker[w].save_start.backups)

\* C7: in a store that began empty or with the seed (one worker, no
\* failure), get_product(id) answers 200 with the one product of the
\* persisted catalog that has the id, its current stock included, and 404
\* when no product has it.
C7_GetProductReturnsTheProduct ==
    \A w \in Workers :
        (Answered(w, "get_product") /\ disk0 \in {NoFile, json_dump(default_data)}) =>
            LET catalog == json_load(stock_file)
                found == {ProductAt(catalog, pl) :
                            pl \in PlacesOf(catalog, worker[w].product_id)}
            IN  /\ stock_file.state = "json"
                /\ Cardinality(PlacesOf(catalog, worker[w].product_id)) <= 1
                /\ IF found = {}
                   THEN worker[w].response.status = 404
                   ELSE /\ worker[w].response.status = 200
                        /\ found = {worker[w].response.body.product}

\* C7 witness: get_product(2) answered with product 2 after one of its four
\* seed items was consumed.
C7_Witness ==
    \E w \in Workers :
        /\ Answered(w, "get_product") /\ disk0 = NoFile
        /\ worker[w].response.status = 200
        /\ worker[w].response.body.product.id = 2
        /\ Len(worker[w].response.body.product.stock) = 3
        /\ Len(consumed[2]) = 1

\* The stock items of a catalog, each named by its product's place and its
\* own index.
ItemsOf(catalog) ==
    UNION {{<< pl, k >> : k \in 1..Len(ProductAt(catalog, pl).stock)} :
             pl \in Places(catalog)}

\* C8: get_dashboard_stats, when it answers 200 (one worker), answers with
\* total_stock_items the number of stock items of the persisted catalog and
\* with low_stock_count the number of products holding at most 3 items,
\* which is the length of low_stock_products; on the untouched seed that is
\* 2 categories, 2 products, 6 items and 1 low-stock product.
C8_DashboardCounts ==
    \A w \in Workers :
        (Answered(w, "get_dashboard_stats") /\ worker[w].response.status = 200) =>
            LET catalog == json_load(stock_file)
                stats == worker[w].response.body
            IN  /\ stock_file.state = "json"
                /\ stats.total_stock_items = Cardinality(ItemsOf(catalog))
                /\ stats.low_stock_count
                     = Cardinality({pl \in Places(catalog) :
                                      Len(ProductAt(catalog, pl).stock) <= 3})
                /\ stats.low_stock_count = Len(stats.low_stock_products)
                /\ stats.total_products = Cardinality(Places(catalog))
                /\ stock_file = json_dump(default_data) =>
                      /\ stats.total_categories = 2
                      /\ stats.total_products = 2
                      /\ stats.total_stock_items = 6
                      /\ stats.low_stock_count = 1

\* C8 witness: the dashboard of the seed after one consume of product 2,
\* whose stock of exactly 3 now counts as low.
C8_Witness ==
    \E w \in Workers :
        /\ Answered(w, "get_dashboard_stats") /\ disk0 = NoFile
        /\ Len(consumed[2]) = 1 /\ consumed[1] = << >>
        /\ worker[w].response.body.low_stock_count = 2
        /\ worker[w].response.body.total_stock_items = 5

\* C9 (as claimed): when save_stock_data has failed, the primary document is
\* what it was when that save began.
C9_FailedSaveLeavesPrimary ==
    \A w \in Workers :
        (worker[w].pc = "done" /\ worker[w].save_result = "failed") =>
            stock_file = worker[w].save_start.primary

\* C10 (as claimed, second half): every request overwrites the primary
\* document at most once and writes at most one backup.
C10_AtMostOneOverwrite ==
    \A w \in Workers : worker[w].n_writes <= 1 /\ worker[w].n_backups <= 1

\* C10 (amended): a request other than consume that began with the primary
\* document present leaves the primary document and the backups unchanged
\* throughout; a request that began with the primary document present
\* overwrites it at most once and writes at most one backup; a request that
\* began without it writes the primary document at most twice (the seed,
\* then a consume's catalog) and at most one backup.
C10_OnlyConsumeMutates ==
    \A w \in Workers :
        worker[w].pc # "idle" =>
            /\ (worker[w].op # "consume" /\ Exists(worker[w].start.primary)) =>
                  /\ stock_file = worker[w].start.primary
                  /\ backups = worker[w].start.backups
            /\ Exists(worker[w].start.primary) =>
                  /\ worker[w].n_writes <= 1
                  /\ worker[w].n_backups <= 1
            /\ worker[w].n_writes <= 2
            /\ worker[w].n_backups <= 1
            /\ worker[w].op # "consume" => worker[w].n_backups = 0 /\ worker[w].n_writes <= 1

\* C10 witness: a consume that began without a primary document wrote the
\* primary document twice.
C10_Witness ==
    \E w \in Workers :
        /\ Answered(w, "consume")
        /\ ~ Exists(worker[w].start.primary)
        /\ worker[w].n_writes = 2
        /\ worker[w].n_backups = 1
====
